---- MODULE Spec2Model ----
(***************************************************************************)
(* State-machine model of WaferDetector (src/wafer-detection.js): the      *)
(* instant template gate, the ORB + RANSAC fallback, the hit smoother and  *)
(* the PASS latch, driven by start / stop / reference loading and by the   *)
(* browser's animation frames.                                             *)
(*                                                                         *)
(* Numbers: correlation scores and ratios are held in hundredths           *)
(* (0.55 -> 55), times in milliseconds.  Hamming distances are integers,   *)
(* and for every pair of distances in 0..256 and CONF_RATIO in             *)
(* {0.80, 0.90, 0.95} the IEEE double comparison m < CONF_RATIO * n agrees *)
(* with the exact comparison 100 * m < ratio * n used here.                *)
(*                                                                         *)
(* The chew detector of the same page (src/script.js) is modelled beside   *)
(* it on variables of its own: one action per processed camera frame       *)
(* (SpecChew) and pushChewEvent on its own (SpecPush).                     *)
(***************************************************************************)
EXTENDS Integers, Sequences, FiniteSets, TLC

VARIABLES
  refs,             \* this.refs: names of the active references, in order
  hits,             \* this.hits
  passed,           \* this.passed
  passStartedAt,    \* this.passStartedAt (NoTime is null)
  isRunning,        \* this.isRunning
  stream,           \* this.stream ("null" or "stream")
  lastQuad,         \* this.lastQuad ("null" or the quad of the named reference)
  CONF_RATIO,       \* this.CONF_RATIO, in hundredths
  MIN_GOOD_MATCHES, \* this.MIN_GOOD_MATCHES
  MIN_INLIERS,      \* this.MIN_INLIERS
  SMOOTH_N,         \* this.SMOOTH_N
  output,           \* this.output.textContent
  status,           \* this.status.textContent
  now,              \* the clock: timestamp of the current animation frame
  loops,            \* lastTS of each detection loop whose callback is registered for the next frame
  due,              \* lastTS of each callback still to run in the current frame
  pendingMedia,     \* getUserMedia promises not yet settled
  metaPending,      \* video.srcObject was assigned and loadedmetadata has not fired yet
  pendingLoads,     \* loadReferenceImages calls waiting on Promise.allSettled
  cyc,              \* locals of the last executed cycle body of the session
  pushed,           \* history: every hit flag pushed since the session started
  alertOpen,        \* the message of the alert() dialog that is open (NoAlert: none)
  refBuf,           \* for each entry of refs: how often its native buffers were deleted
  frameMats,        \* frameRGBA, frameGray, frameEdge, kpFrame, desFrame
  lastBodyTS,       \* history: timestamp of the last executed cycle body (NoTime: none yet)
  customLoads,      \* loadCustomReferenceImages calls in progress: the batch and the next file
  doneLoad,         \* history: the batch and the pushes of the last load that ended
  stopCalled,       \* history: stopDetection was called and startDetection was not called since
  EXIT_ON_PASS,     \* this.EXIT_ON_PASS: set by the constructor, assigned nowhere else
  passEnteredAt     \* history: when Passed was first entered since the last stopDetection (NoTime: not yet)

\* State of script.js (the chew detector of the same page).
VARIABLES
  mouthState,       \* mouthState: "open" or "closed"
  chewEvents,       \* chewEvents: timestamps of the recorded chews still kept
  eatingDetected,   \* eatingDetected
  waferTaken,       \* waferTaken
  contactStartTs,   \* contactStartTs (NoTime is null)
  lastHoldMs,       \* lastHoldMs
  holdingPrev,      \* holdingPrev
  perfNow,          \* performance.now() of the frame onFrame processed last
  labels,           \* what the last frame drew: the chew count and the EATING label
  fr,               \* history: the results and measures of the last processed frame
  recorded,         \* history: the timestamp of every pushChewEvent call, in order
  bandSince,        \* history: since when every processed frame had face, hand and both tips in the band (kept once waferTaken)
  openedSince       \* history: openness exceeded OPEN_THR since the last recorded chew

detectorVars ==
  <<refs, hits, passed, passStartedAt, isRunning, stream, lastQuad,
    CONF_RATIO, MIN_GOOD_MATCHES, MIN_INLIERS, SMOOTH_N, output, status,
    now, loops, due, pendingMedia, metaPending, pendingLoads, cyc, pushed,
    alertOpen, refBuf, frameMats, lastBodyTS, customLoads, doneLoad,
    stopCalled, EXIT_ON_PASS, passEnteredAt>>

scriptVars ==
  <<mouthState, chewEvents, eatingDetected, waferTaken, contactStartTs, lastHoldMs,
    holdingPrev, perfNow, labels, fr, recorded, bandSince, openedSince>>

vars == <<detectorVars, scriptVars>>

----------------------------------------------------------------------------
\* Tunables set by the constructor and never changed afterwards.

INSTANT_TEMPLATE == TRUE
TMPL_THR == 55
SHOW_DEBUG == TRUE
PASS_HOLD_MS == 1000
REF_IMAGE_FILES == <<"wafer_ref_4.png", "wafer_ref_5.png", "wafer_ref_1.jpg", "wafer_ref_2.jpg">>

\* Constructor defaults of the tunables updateSettings may overwrite.
DEFAULT_CONF_RATIO == 90
DEFAULT_MIN_GOOD_MATCHES == 3
DEFAULT_MIN_INLIERS == 6
DEFAULT_SMOOTH_N == 5

\* A reference or a frame is usable only with at least this many descriptors.
MIN_DESCRIPTORS == 8

\* null for passStartedAt; "no such element" for a settings input.
NoTime == -1
NoElem == -1

NoCycle == [valid |-> FALSE]
NoLoad == [valid |-> FALSE]

\* No alert() dialog is open; the two messages the detector alerts.
NoAlert == "none"
AlertNoRefs == "Load reference images first."
AlertCamera == "Camera error. Check permissions or device."

----------------------------------------------------------------------------
\* Bounds of the model.

MaxRefs == 1          \* image files of REF_IMAGE_FILES the server holds (Spec)
MaxRefsCycle == 2     \* image files of REF_IMAGE_FILES the server holds (SpecCycle)
MaxLoops == 2         \* detection loops alive at once
MaxPendingStarts == 1 \* getUserMedia promises pending at once
MaxPendingLoads == 1  \* loadReferenceImages calls pending at once
MaxLoopsCycle == 1    \* detection loops alive at once (SpecCycle)
TickMs == 20          \* granularity of the clock, in ms
MaxTicks == 8         \* clock ticks until the last animation frame (Spec)
MaxTicksCycle == 4    \* clock ticks until the last animation frame (SpecCycle)
MaxRefsLoad == 2      \* image files of REF_IMAGE_FILES the page requests (SpecLoad)
MaxBatch == 2         \* files of one loadCustomReferenceImages call (SpecLoad)
MaxCustomLoads == 2   \* loadCustomReferenceImages calls in progress at once (SpecLoad)
MaxCustomLoadsHeap == 2 \* loadCustomReferenceImages calls in progress at once (SpecHeap)
MaxLoopsHeap == 1     \* detection loops alive at once (SpecHeap)
MaxTicksHeap == 3     \* clock ticks until the last animation frame (SpecHeap)
MaxTicksThrow == 6    \* clock ticks until the last animation frame (SpecThrow)
TickMsExit == 500     \* time between two animation frames, in ms (SpecExit)
MaxTicksExit == 4     \* animation frames until the last one (SpecExit)
MaxChews == 3         \* chews recorded in one run (SpecChew)
MaxTimeChew == 10000  \* time of the last frame of script.js, in ms (SpecChew)

\* Time between two animation frames (a 50 Hz display): less than the
\* 1000/30 ms of the rate limit, so that every other frame is skipped.
FrameDeltas == {TickMs}

\* The first n files of REF_IMAGE_FILES: the files the server holds (the image
\* of every other file fails to load).
PresentFiles(n) == SubSeq(REF_IMAGE_FILES, 1, n)

----------------------------------------------------------------------------
\* Inputs of one cycle: what OpenCV computes from the current video frame.
\*   desRows     descriptors found in the frame (this.desFrame.rows)
\*   per[i]      for the i-th reference:
\*     maxVal    minMaxLoc(ref.res).maxVal, in hundredths
\*     knn       knnMatch's result: one entry per reference descriptor, each the
\*               sequence of the distances of its nearest neighbours
\*     hom       findHomography's outcome: "throw", "empty" (H.empty()), or
\*               "ok" with countNonZero(mask) = inliers

Rep(n, x) == [i \in 1..n |-> x]

HomThrow == [kind |-> "throw", inliers |-> 0]
HomEmpty == [kind |-> "empty", inliers |-> 0]
HomOk(k) == [kind |-> "ok", inliers |-> k]

\* 8 reference descriptors, all with nearest/second = 0.85
KnnAll == Rep(8, <<85, 100>>)
\* 2 with nearest/second = 0.85, 3 on the boundary, 3 with a single neighbour
KnnTwo == Rep(2, <<85, 100>>) \o Rep(3, <<9, 10>>) \o Rep(3, <<40>>)

PerRef(v, k, h) == [maxVal |-> v, knn |-> k, hom |-> h]

PerRefCycle ==
  { PerRef(50, KnnTwo, HomEmpty), PerRef(55, KnnTwo, HomOk(5)),
    PerRef(60, KnnAll, HomOk(5)), PerRef(55, KnnAll, HomOk(6)),
    PerRef(50, KnnAll, HomOk(6)), PerRef(60, KnnAll, HomThrow) }

\* With fewer than 8 frame descriptors no reference is matched, and frames
\* differ only in their correlation maxima.
PerRefFew == { p \in PerRefCycle : p.knn = KnnAll /\ p.hom.kind = "ok" }

PerRefSession ==
  { PerRef(50, KnnTwo, HomEmpty), PerRef(60, KnnAll, HomOk(6)) }

FramesCycle(n) ==
  [desRows : {8}, per : [1..n -> PerRefCycle]] \cup [desRows : {7}, per : [1..n -> PerRefFew]]
FramesSession(n) == [desRows : {8}, per : [1..n -> PerRefSession]]

\* With many references every one of them gives the same result.
FramesHeap(n) == [desRows : {8}, per : { [i \in 1..n |-> p] : p \in PerRefSession }]

\* What loading one reference image gives: the image decodes and is processed,
\* or not (onerror, or an exception in onload), and detectAndCompute finds
\* desRows descriptors in it.
ImgGood == [decodes |-> TRUE, desRows |-> 8]
ImgWeak == [decodes |-> TRUE, desRows |-> 7]
ImgBroken == [decodes |-> FALSE, desRows |-> 0]
ImageKinds == {ImgGood, ImgWeak, ImgBroken}

\* The batches handed to loadCustomReferenceImages: 1 to MaxBatch files.
CustomBatches == UNION { [1..n -> ImageKinds] : n \in 1..MaxBatch }
HeapBatches == { <<ImgGood>>, <<ImgWeak, ImgGood>> }
CustomNames == <<"custom_1.png", "custom_2.png", "custom_3.png", "custom_4.png">>

\* What the settings inputs of the page hold when updateSettings reads them
\* (NoElem: the page has no such input).
\* Frames of script.js.  Mouth 50 px wide with a gap of 1, 2, 4 or 5 px:
\* openness 0.02, 0.04, 0.08, 0.10.  Both tips on the edges of the band, or one
\* of them just outside it.
MouthGaps == {1, 2, 4, 5}
TipDistances == { <<10, 40>>, <<9, 25>>, <<25, 41>> }
FramesChew ==
  { [faceOk |-> FALSE, handOk |-> FALSE, gap |-> 0, width |-> 0,
     indexDistance |-> 0, thumbDistance |-> 0] }
  \cup { [faceOk |-> TRUE, handOk |-> FALSE, gap |-> g, width |-> 50,
          indexDistance |-> 0, thumbDistance |-> 0] : g \in MouthGaps }
  \cup { [faceOk |-> TRUE, handOk |-> TRUE, gap |-> g, width |-> 50,
          indexDistance |-> p[1], thumbDistance |-> p[2]] :
          g \in MouthGaps, p \in TipDistances }

\* Time between two calls of onFrame: a fast and a slow camera.
ChewDeltas == {500, 4000}

\* Timestamps handed to pushChewEvent when it is looked at on its own: equal
\* ones, and ones exactly EAT_WINDOW_MS and one more apart.
PushTimes == {0, 1, 4000, 8000, 8001, 8002, 12000}

UI(c, g, i, s) == [confRatio |-> c, minGoodMatches |-> g, minInliers |-> i, smoothFrames |-> s]
UISession == { UI(90, 3, 6, 1), UI(90, 3, 6, 3) }
UICycle == { UI(NoElem, NoElem, NoElem, NoElem), UI(80, 3, 6, 1), UI(95, 3, 5, 1) }
UIHeap == { UI(NoElem, NoElem, NoElem, NoElem) }

----------------------------------------------------------------------------
\* The cycle body of _startDetectionLoop, as operators.

\* mm.maxVal >= this.TMPL_THR
TemplateHitRef_Strict(maxVal, thr) == maxVal > thr
TemplateHitRef_Reversed(maxVal, thr) == maxVal <= thr
TemplateHitRef(maxVal, thr) == maxVal >= thr

\* The instant template gate: every reference is matched, none ends the loop
\* (every loaded reference has its tmpl and res, so none is skipped).
TemplateGate(enabled, f, n, thr) ==
  enabled /\ \E i \in 1..n : TemplateHitRef(f.per[i].maxVal, thr)

\* mv.size() === 2 and m.distance < CONF_RATIO * n.distance
RatioKeep_NonStrict(mv, ratio) == Len(mv) = 2 /\ 100 * mv[1] <= ratio * mv[2]
RatioKeep(mv, ratio) == Len(mv) = 2 /\ 100 * mv[1] < ratio * mv[2]

\* The ratio test: the nearest neighbour of every kept entry, in order.
RECURSIVE RatioTest(_, _)
RatioTest(matches, ratio) ==
  IF matches = <<>> THEN <<>>
  ELSE LET rest == RatioTest(Tail(matches), ratio)
       IN IF RatioKeep(Head(matches), ratio) THEN <<Head(matches)[1]>> \o rest ELSE rest

\* good.length < this.MIN_GOOD_MATCHES: continue with the next reference
TooFewMatches_Never(good, minGood) == FALSE
TooFewMatches(good, minGood) == Len(good) < minGood

\* bestInliers >= this.MIN_INLIERS: break
EarlyExit_FirstFit(bestInliers, minInliers) == bestInliers >= 1
EarlyExit(bestInliers, minInliers) == bestInliers >= minInliers

\* findHomography in its try/catch: an exception or an empty H changes nothing.
FitHomography_QuadAlways(acc, i, hom, name) ==
  LET acc1 == [acc EXCEPT !.fits = @ \cup {i}, !.bestQuad = name]
  IN IF hom.kind = "ok" /\ hom.inliers > acc.bestInliers
     THEN [acc1 EXCEPT !.bestInliers = hom.inliers]
     ELSE acc1
FitHomography_FailResets(acc, i, hom, name) ==
  LET acc1 == [acc EXCEPT !.fits = @ \cup {i}]
  IN IF hom.kind = "ok"
     THEN IF hom.inliers > acc.bestInliers
          THEN [acc1 EXCEPT !.bestInliers = hom.inliers,
                            !.bestQuad = IF SHOW_DEBUG THEN name ELSE @]
          ELSE acc1
     ELSE [acc1 EXCEPT !.bestInliers = 0, !.bestQuad = "null"]
FitHomography(acc, i, hom, name) ==
  LET acc1 == [acc EXCEPT !.fits = @ \cup {i}]
  IN IF hom.kind = "ok" /\ hom.inliers > acc.bestInliers
     THEN [acc1 EXCEPT !.bestInliers = hom.inliers,
                       !.bestQuad = IF SHOW_DEBUG THEN name ELSE @]
     ELSE acc1

\* The end of one iteration of the reference loop: acc.trace records
\* bestInliers and bestQuad as each visited reference leaves them.
Snap(acc) == [acc EXCEPT !.trace = Append(@, <<acc.bestInliers, acc.bestQuad>>)]

\* for (const ref of this.refs) { knnMatch; ratio test; fit; early exit }
\* acc.good holds the ratio-test survivors of every reference visited so far.
RECURSIVE OrbLoop(_, _, _, _, _, _, _)
OrbLoop(i, rs, f, ratio, minGood, minInliers, acc) ==
  IF i > Len(rs) THEN acc
  ELSE LET good == RatioTest(f.per[i].knn, ratio)
           acc1 == [acc EXCEPT !.good = Append(@, good)]
       IN IF TooFewMatches(good, minGood)
          THEN OrbLoop(i + 1, rs, f, ratio, minGood, minInliers, Snap(acc1))
          ELSE LET acc2 == Snap(FitHomography(acc1, i, f.per[i].hom, rs[i]))
               IN IF EarlyExit(acc2.bestInliers, minInliers)
                  THEN acc2
                  ELSE OrbLoop(i + 1, rs, f, ratio, minGood, minInliers, acc2)

\* The ORB fallback: runs whenever waferPresent is still false, which it always is.
OrbFallback_AlwaysMatches(rs, f, ratio, minGood, minInliers) ==
  OrbLoop(1, rs, f, ratio, minGood, minInliers,
          [bestInliers |-> 0, bestQuad |-> "null", good |-> <<>>, fits |-> {},
           trace |-> <<>>])
OrbFallback(rs, f, ratio, minGood, minInliers) ==
  LET acc0 == [bestInliers |-> 0, bestQuad |-> "null", good |-> <<>>, fits |-> {},
               trace |-> <<>>]
  IN IF f.desRows >= MIN_DESCRIPTORS
     THEN OrbLoop(1, rs, f, ratio, minGood, minInliers, acc0)
     ELSE acc0

\* waferPresent = (templateHit && bestInliers >= this.MIN_INLIERS)
WaferPresent_Or(templateHit, bestInliers, minInliers) == templateHit \/ bestInliers >= minInliers
WaferPresent_GateOnly(templateHit, bestInliers, minInliers) == templateHit
WaferPresent(templateHit, bestInliers, minInliers) == templateHit /\ bestInliers >= minInliers

\* this.hits.push(waferPresent); if (this.hits.length > this.SMOOTH_N) this.hits.shift()
PushHit_EvictsNewest(h, hit, n) == IF Len(h) + 1 > n THEN h ELSE Append(h, hit)
PushHit_NoEvict(h, hit, n) == Append(h, hit)
PushHit(h, hit, n) == IF Len(h) + 1 > n THEN Tail(Append(h, hit)) ELSE Append(h, hit)

\* this.hits.some(Boolean)
Decided(h) == \E j \in 1..Len(h) : h[j]

\* if (decided && !this.passed) { passed = true; passStartedAt = performance.now() }
PassStart_Overwrite(decided, wasPassed, startedAt, t) == IF decided THEN t ELSE startedAt
PassStart(decided, wasPassed, startedAt, t) == IF decided /\ ~wasPassed THEN t ELSE startedAt

\* this.lastQuad = (this.SHOW_DEBUG && bestQuad && !this.passed) ? bestQuad : null
LastQuad_IgnoresPassed(showDebug, bestQuad, isPassed) ==
  IF showDebug /\ bestQuad # "null" THEN bestQuad ELSE "null"
LastQuad(showDebug, bestQuad, isPassed) ==
  IF showDebug /\ bestQuad # "null" /\ ~isPassed THEN bestQuad ELSE "null"

\* updateStatus(waferPresent, best, passed)
StatusText(present, inliers, isPassed) ==
  IF isPassed THEN <<"PASS - Wafer Detected Instantly!">>
  ELSE <<"Wafer", IF present THEN "YES" ELSE "NO", "Best inliers", inliers>>

\* One executed cycle body on frame f at time t: the locals and the new fields.
CycleBody(f, t) ==
  LET templateHit == TemplateGate(INSTANT_TEMPLATE, f, Len(refs), TMPL_THR)
      orb == OrbFallback(refs, f, CONF_RATIO, MIN_GOOD_MATCHES, MIN_INLIERS)
      waferPresent == WaferPresent(templateHit, orb.bestInliers, MIN_INLIERS)
      hits1 == PushHit(hits, waferPresent, SMOOTH_N)
      decided == Decided(hits1)
      passed1 == passed \/ decided
      started1 == PassStart(decided, passed, passStartedAt, t)
      autoExit == /\ EXIT_ON_PASS /\ passed1 /\ started1 # NoTime
                  /\ t - started1 >= PASS_HOLD_MS
  IN [templateHit |-> templateHit, bestInliers |-> orb.bestInliers,
      bestQuad |-> orb.bestQuad, good |-> orb.good, fits |-> orb.fits,
      trace |-> orb.trace,
      waferPresent |-> waferPresent, hits |-> hits1, decided |-> decided,
      passed |-> passed1, passStartedAt |-> started1,
      lastQuad |-> LastQuad(SHOW_DEBUG, orb.bestQuad, passed1),
      output |-> IF decided \/ passed1 THEN "1" ELSE "0",
      status |-> StatusText(decided, orb.bestInliers, passed1),
      autoExit |-> autoExit]

\* A frame OpenCV can produce for the current references and settings: RANSAC
\* needs 4 point pairs, and its mask marks no more pairs than it was given.
ValidFrame(f) ==
  \A i \in 1..Len(refs) :
    LET good == RatioTest(f.per[i].knn, CONF_RATIO)
    IN f.per[i].hom.kind = "ok" =>
         /\ Len(good) >= 4
         /\ f.per[i].hom.inliers <= Len(good)

----------------------------------------------------------------------------
\* updateSettings: parseFloat / parseInt of each input the page has.
Setting(cur, ui) == IF ui = NoElem THEN cur ELSE ui

\* ts - lastTS < targetDelta, with targetDelta = 1000 / 30
TooSoon(ts, lastTS) == 30 * (ts - lastTS) < 1000

\* No animation-frame callback is in progress and no alert() dialog blocks the
\* page: the next event can be handled.
Quiet == due = <<>> /\ alertOpen = NoAlert

----------------------------------------------------------------------------
\* The state once the constructor and the OpenCV bootstrap it starts are done:
\* until then no reference can be built, so nothing else can happen.
InitDetector ==
  /\ refs = <<>>
  /\ hits = <<>>
  /\ passed = FALSE
  /\ passStartedAt = NoTime
  /\ isRunning = FALSE
  /\ stream = "null"
  /\ lastQuad = "null"
  /\ CONF_RATIO = DEFAULT_CONF_RATIO
  /\ MIN_GOOD_MATCHES = DEFAULT_MIN_GOOD_MATCHES
  /\ MIN_INLIERS = DEFAULT_MIN_INLIERS
  /\ SMOOTH_N = DEFAULT_SMOOTH_N
  /\ output = ""
  /\ status = <<>>
  /\ now = 0
  /\ loops = <<>>
  /\ due = <<>>
  /\ pendingMedia = 0
  /\ metaPending = FALSE
  /\ pendingLoads = 0
  /\ cyc = NoCycle
  /\ pushed = <<>>
  /\ alertOpen = NoAlert
  /\ refBuf = <<>>
  /\ frameMats = "allocated"
  /\ lastBodyTS = NoTime
  /\ customLoads = <<>>
  /\ doneLoad = NoLoad
  /\ stopCalled = FALSE
  /\ passEnteredAt = NoTime

----------------------------------------------------------------------------
\* script.js: chew detection and the wafer-to-mouth gate.  Openness and its
\* thresholds are held in hundredths (0.08 -> 8), distances in whole pixels,
\* times in milliseconds.

EAT_WINDOW_MS == 8000
CHEW_TARGET == 2
OPEN_THR == 8
CLOSE_THR == 4
CONTACT_REQUIRED_MS == 500
TOUCH_MIN_PX == 10
TOUCH_MAX_PX == 40

NoFrame == [valid |-> FALSE]
NoLabels == [chews |-> NoElem, eating |-> FALSE]

\* let mouthState = "closed"; let chewEvents = []; ... let holdingPrev = false;
\* nothing is drawn and no frame is processed yet.
InitScript ==
  /\ mouthState = "closed"
  /\ chewEvents = <<>>
  /\ eatingDetected = FALSE
  /\ waferTaken = FALSE
  /\ contactStartTs = NoTime
  /\ lastHoldMs = 0
  /\ holdingPrev = FALSE
  /\ perfNow = 0
  /\ labels = NoLabels
  /\ fr = NoFrame
  /\ recorded = <<>>
  /\ bandSince = NoTime
  /\ openedSince = FALSE

\* this.EXIT_ON_PASS = false
Init == InitDetector /\ EXIT_ON_PASS = FALSE /\ InitScript

\* The detector with the auto-exit tunable of the constructor either way.
InitExit == InitDetector /\ EXIT_ON_PASS \in BOOLEAN /\ InitScript

\* r.kp?.delete(); r.des?.delete(); r.corners?.delete?.(); r.tmpl?.delete();
\* r.res?.delete?.() on every reference of this.refs.
ReleaseAll(buf) == [i \in DOMAIN buf |-> buf[i] + 1]

\* The cleanup that opens both load operations: every reference of this.refs
\* is released, then this.refs = [].  The released objects are reachable from
\* nowhere else, so they leave the model with the array that held them.
Cleanup_KeepsRefs(rs, buf) == [refs |-> rs, buf |-> ReleaseAll(buf)]
Cleanup(rs, buf) == [refs |-> <<>>, buf |-> <<>>]

\* loadReferenceImages up to its await: the old references are released and
\* this.refs is emptied.
LoadReferenceImages ==
  /\ Quiet
  /\ pendingLoads < MaxPendingLoads
  /\ refs' = Cleanup(refs, refBuf).refs
  /\ refBuf' = Cleanup(refs, refBuf).buf
  /\ pendingLoads' = pendingLoads + 1
  /\ UNCHANGED <<hits, passed, passStartedAt, isRunning, stream, lastQuad,
                 CONF_RATIO, MIN_GOOD_MATCHES, MIN_INLIERS, SMOOTH_N, output, status,
                 now, loops, due, pendingMedia, metaPending, cyc, pushed,
                 alertOpen, frameMats, lastBodyTS, customLoads, doneLoad,
                 stopCalled, EXIT_ON_PASS, passEnteredAt, scriptVars>>

\* loadReferenceImages after Promise.allSettled: every file that resolved to a
\* reference (ok[i]) is pushed, in the order of REF_IMAGE_FILES.
LoadSettled(files) ==
  /\ Quiet
  /\ pendingLoads > 0
  /\ \E ok \in [1..Len(files) -> BOOLEAN] :
       LET new == SelectSeq(files,
                    LAMBDA name : \E i \in 1..Len(files) : files[i] = name /\ ok[i])
       IN /\ refs' = refs \o new
          /\ refBuf' = refBuf \o [i \in 1..Len(new) |-> 0]
  /\ pendingLoads' = pendingLoads - 1
  /\ UNCHANGED <<hits, passed, passStartedAt, isRunning, stream, lastQuad,
                 CONF_RATIO, MIN_GOOD_MATCHES, MIN_INLIERS, SMOOTH_N, output, status,
                 now, loops, due, pendingMedia, metaPending, cyc, pushed,
                 alertOpen, frameMats, lastBodyTS, customLoads, doneLoad,
                 stopCalled, EXIT_ON_PASS, passEnteredAt, scriptVars>>

\* if (!des || des.rows < 8): the reference is released and null is resolved
WeakRef(img) == img.desRows < MIN_DESCRIPTORS

\* _loadRefFromPath resolves to a reference: the image decoded and is not weak
\* (onerror and the weak branch resolve null).
RefFromPath(img) == img.decodes /\ ~WeakRef(img)

\* loadReferenceImages after Promise.allSettled, with what each image gave:
\* every fulfilled non-null result is pushed, in the order of REF_IMAGE_FILES.
LoadSettledImages(files) ==
  /\ Quiet
  /\ pendingLoads > 0
  /\ \E imgs \in [1..Len(files) -> ImageKinds] :
       LET added == { i \in 1..Len(files) : RefFromPath(imgs[i]) }
           new == SelectSeq(files,
                    LAMBDA name : \E i \in added : files[i] = name)
       IN /\ refs' = refs \o new
          /\ refBuf' = refBuf \o [i \in 1..Len(new) |-> 0]
          /\ doneLoad' = [valid |-> TRUE, path |-> "default", imgs |-> imgs,
                          added |-> added, aborted |-> FALSE]
  /\ pendingLoads' = pendingLoads - 1
  /\ UNCHANGED <<hits, passed, passStartedAt, isRunning, stream, lastQuad,
                 CONF_RATIO, MIN_GOOD_MATCHES, MIN_INLIERS, SMOOTH_N, output, status,
                 now, loops, due, pendingMedia, metaPending, cyc, pushed,
                 alertOpen, frameMats, lastBodyTS, customLoads,
                 stopCalled, EXIT_ON_PASS, passEnteredAt, scriptVars>>

\* loadCustomReferenceImages(files) up to its first await: the old references
\* are released, this.refs is emptied and the first file is being read.
LoadCustomReferenceImages(batch, maxLoads) ==
  /\ Quiet
  /\ Len(customLoads) < maxLoads
  /\ refs' = Cleanup(refs, refBuf).refs
  /\ refBuf' = Cleanup(refs, refBuf).buf
  /\ customLoads' = Append(customLoads, [imgs |-> batch, pos |-> 1, added |-> {}])
  /\ UNCHANGED <<hits, passed, passStartedAt, isRunning, stream, lastQuad,
                 CONF_RATIO, MIN_GOOD_MATCHES, MIN_INLIERS, SMOOTH_N, output, status,
                 now, loops, due, pendingMedia, metaPending, pendingLoads, cyc, pushed,
                 alertOpen, frameMats, lastBodyTS, doneLoad,
                 stopCalled, EXIT_ON_PASS, passEnteredAt, scriptVars>>

\* The promise of _processRefFile settles for the file the k-th call in
\* progress awaits.  onerror rejects: the await throws and the call ends
\* there.  A weak image resolves null and is skipped, any other is pushed;
\* then the next file is read, or the call ends after the last one.
CustomFileSettled(k) ==
  /\ Quiet
  /\ k \in 1..Len(customLoads)
  /\ LET ld == customLoads[k]
         img == ld.imgs[ld.pos]
         others == [j \in 1..(Len(customLoads) - 1) |->
                      IF j < k THEN customLoads[j] ELSE customLoads[j + 1]]
         isGood == img.decodes /\ ~WeakRef(img)
         added1 == IF isGood THEN ld.added \cup {ld.pos} ELSE ld.added
         ends == ~img.decodes \/ ld.pos = Len(ld.imgs)
     IN /\ refs' = IF isGood THEN Append(refs, CustomNames[ld.pos]) ELSE refs
        /\ refBuf' = IF isGood THEN Append(refBuf, 0) ELSE refBuf
        /\ customLoads' = IF ends THEN others
                          ELSE [customLoads EXCEPT ![k] = [ld EXCEPT !.pos = @ + 1,
                                                                     !.added = added1]]
        /\ doneLoad' = IF ends
                       THEN [valid |-> TRUE, path |-> "custom", imgs |-> ld.imgs,
                             added |-> added1, aborted |-> ~img.decodes]
                       ELSE doneLoad
  /\ UNCHANGED <<hits, passed, passStartedAt, isRunning, stream, lastQuad,
                 CONF_RATIO, MIN_GOOD_MATCHES, MIN_INLIERS, SMOOTH_N, output, status,
                 now, loops, due, pendingMedia, metaPending, pendingLoads, cyc, pushed,
                 alertOpen, frameMats, lastBodyTS,
                 stopCalled, EXIT_ON_PASS, passEnteredAt, scriptVars>>

\* if (!this.refs.length)
NoRefs_Never(rs) == FALSE
NoRefs(rs) == Len(rs) = 0

\* startDetection up to its await: without references it only alerts.
StartDetection ==
  /\ Quiet
  /\ pendingMedia < MaxPendingStarts
  /\ pendingMedia' = IF NoRefs(refs) THEN pendingMedia ELSE pendingMedia + 1
  /\ alertOpen' = IF NoRefs(refs) THEN AlertNoRefs ELSE alertOpen
  /\ stopCalled' = FALSE
  /\ UNCHANGED <<refs, hits, passed, passStartedAt, isRunning, stream, lastQuad,
                 CONF_RATIO, MIN_GOOD_MATCHES, MIN_INLIERS, SMOOTH_N, output, status,
                 now, loops, due, metaPending, pendingLoads, cyc, pushed,
                 refBuf, frameMats, lastBodyTS, customLoads, doneLoad,
                 EXIT_ON_PASS, passEnteredAt, scriptVars>>

\* getUserMedia resolved: the stream is kept and handed to the video element,
\* whose loadedmetadata event will fire.
MediaResolved ==
  /\ Quiet
  /\ pendingMedia > 0
  /\ pendingMedia' = pendingMedia - 1
  /\ stream' = "stream"
  /\ metaPending' = TRUE
  /\ UNCHANGED <<refs, hits, passed, passStartedAt, isRunning, lastQuad,
                 CONF_RATIO, MIN_GOOD_MATCHES, MIN_INLIERS, SMOOTH_N, output, status,
                 now, loops, due, pendingLoads, cyc, pushed,
                 alertOpen, refBuf, frameMats, lastBodyTS, customLoads, doneLoad,
                 stopCalled, EXIT_ON_PASS, passEnteredAt, scriptVars>>

\* getUserMedia rejected: the catch block alerts.
MediaRejected_StartsLoop ==
  /\ Quiet
  /\ pendingMedia > 0
  /\ pendingMedia' = pendingMedia - 1
  /\ alertOpen' = AlertCamera
  /\ metaPending' = TRUE
  /\ UNCHANGED <<refs, hits, passed, passStartedAt, isRunning, stream, lastQuad,
                 CONF_RATIO, MIN_GOOD_MATCHES, MIN_INLIERS, SMOOTH_N, output, status,
                 now, loops, due, pendingLoads, cyc, pushed,
                 refBuf, frameMats, lastBodyTS, customLoads, doneLoad,
                 stopCalled, EXIT_ON_PASS, passEnteredAt, scriptVars>>
MediaRejected ==
  /\ Quiet
  /\ pendingMedia > 0
  /\ pendingMedia' = pendingMedia - 1
  /\ alertOpen' = AlertCamera
  /\ UNCHANGED <<refs, hits, passed, passStartedAt, isRunning, stream, lastQuad,
                 CONF_RATIO, MIN_GOOD_MATCHES, MIN_INLIERS, SMOOTH_N, output, status,
                 now, loops, due, metaPending, pendingLoads, cyc, pushed,
                 refBuf, frameMats, lastBodyTS, customLoads, doneLoad,
                 stopCalled, EXIT_ON_PASS, passEnteredAt, scriptVars>>

\* The user closes the alert() dialog: the call that alerted returns.
DismissAlert ==
  /\ alertOpen # NoAlert
  /\ alertOpen' = NoAlert
  /\ UNCHANGED <<refs, hits, passed, passStartedAt, isRunning, stream, lastQuad,
                 CONF_RATIO, MIN_GOOD_MATCHES, MIN_INLIERS, SMOOTH_N, output, status,
                 now, loops, due, pendingMedia, metaPending, pendingLoads, cyc, pushed,
                 refBuf, frameMats, lastBodyTS, customLoads, doneLoad,
                 stopCalled, EXIT_ON_PASS, passEnteredAt, scriptVars>>

\* video.onloadedmetadata: the session state is reset, the settings are read
\* and a new detection loop is registered (lastTS = 0).  _startLiveFeed only
\* draws, and is left out.
LoadedMetadata_KeepsLatch(ui, maxLoops) ==
  /\ Quiet
  /\ metaPending
  /\ Len(loops) < maxLoops
  /\ metaPending' = FALSE
  /\ isRunning' = TRUE
  /\ lastQuad' = "null"
  /\ CONF_RATIO' = Setting(CONF_RATIO, ui.confRatio)
  /\ MIN_GOOD_MATCHES' = Setting(MIN_GOOD_MATCHES, ui.minGoodMatches)
  /\ MIN_INLIERS' = Setting(MIN_INLIERS, ui.minInliers)
  /\ SMOOTH_N' = Setting(SMOOTH_N, ui.smoothFrames)
  /\ loops' = Append(loops, 0)
  /\ cyc' = NoCycle
  /\ pushed' = <<>>
  /\ UNCHANGED <<refs, hits, passed, passStartedAt, stream, output, status, now, due,
                 pendingMedia, pendingLoads,
                 alertOpen, refBuf, frameMats, lastBodyTS, customLoads, doneLoad,
                 stopCalled, EXIT_ON_PASS, passEnteredAt, scriptVars>>
LoadedMetadata(ui, maxLoops) ==
  /\ Quiet
  /\ metaPending
  /\ Len(loops) < maxLoops
  /\ metaPending' = FALSE
  /\ isRunning' = TRUE
  /\ passed' = FALSE
  /\ passStartedAt' = NoTime
  /\ hits' = <<>>
  /\ lastQuad' = "null"
  /\ CONF_RATIO' = Setting(CONF_RATIO, ui.confRatio)
  /\ MIN_GOOD_MATCHES' = Setting(MIN_GOOD_MATCHES, ui.minGoodMatches)
  /\ MIN_INLIERS' = Setting(MIN_INLIERS, ui.minInliers)
  /\ SMOOTH_N' = Setting(SMOOTH_N, ui.smoothFrames)
  /\ loops' = Append(loops, 0)
  /\ cyc' = NoCycle
  /\ pushed' = <<>>
  /\ UNCHANGED <<refs, stream, output, status, now, due, pendingMedia, pendingLoads,
                 alertOpen, refBuf, frameMats, lastBodyTS, customLoads, doneLoad,
                 stopCalled, EXIT_ON_PASS, passEnteredAt, scriptVars>>

\* stopDetection
StopDetection ==
  /\ Quiet
  /\ isRunning' = FALSE
  /\ stream' = "null"
  /\ status' = StatusText(FALSE, 0, FALSE)
  /\ output' = "0"
  /\ lastQuad' = "null"
  /\ stopCalled' = TRUE
  /\ passEnteredAt' = NoTime
  /\ UNCHANGED <<refs, hits, passed, passStartedAt,
                 CONF_RATIO, MIN_GOOD_MATCHES, MIN_INLIERS, SMOOTH_N,
                 now, loops, due, pendingMedia, metaPending, pendingLoads, cyc, pushed,
                 alertOpen, refBuf, frameMats, lastBodyTS, customLoads, doneLoad,
                 EXIT_ON_PASS, scriptVars>>

\* The browser starts an animation frame d ms after the last one: every
\* registered callback becomes due, with the frame's timestamp.  The clock is
\* read only by the callbacks (performance.now() in a callback is taken to be
\* the frame's timestamp), so it advances only while one is registered.
AnimationFrame(d, maxTime) ==
  /\ Quiet
  /\ loops # <<>>
  /\ now + d <= maxTime
  /\ now' = now + d
  /\ due' = loops
  /\ loops' = <<>>
  /\ UNCHANGED <<refs, hits, passed, passStartedAt, isRunning, stream, lastQuad,
                 CONF_RATIO, MIN_GOOD_MATCHES, MIN_INLIERS, SMOOTH_N, output, status,
                 pendingMedia, metaPending, pendingLoads, cyc, pushed,
                 alertOpen, refBuf, frameMats, lastBodyTS, customLoads, doneLoad,
                 stopCalled, EXIT_ON_PASS, passEnteredAt, scriptVars>>

\* loop(ts) of the first due callback, when the session is not running: it
\* returns without registering itself again.
LoopStopped ==
  /\ due # <<>>
  /\ ~isRunning
  /\ due' = Tail(due)
  /\ UNCHANGED <<refs, hits, passed, passStartedAt, isRunning, stream, lastQuad,
                 CONF_RATIO, MIN_GOOD_MATCHES, MIN_INLIERS, SMOOTH_N, output, status,
                 now, loops, pendingMedia, metaPending, pendingLoads, cyc, pushed,
                 alertOpen, refBuf, frameMats, lastBodyTS, customLoads, doneLoad,
                 stopCalled, EXIT_ON_PASS, passEnteredAt, scriptVars>>

\* loop(ts) less than 1000/30 ms after the last executed body: only rescheduled.
LoopSkip ==
  /\ due # <<>>
  /\ isRunning
  /\ TooSoon(now, Head(due))
  /\ due' = Tail(due)
  /\ loops' = Append(loops, Head(due))
  /\ UNCHANGED <<refs, hits, passed, passStartedAt, isRunning, stream, lastQuad,
                 CONF_RATIO, MIN_GOOD_MATCHES, MIN_INLIERS, SMOOTH_N, output, status,
                 now, pendingMedia, metaPending, pendingLoads, cyc, pushed,
                 alertOpen, refBuf, frameMats, lastBodyTS, customLoads, doneLoad,
                 stopCalled, EXIT_ON_PASS, passEnteredAt, scriptVars>>

\* loop(ts) executing the cycle body on frame f.
LoopCycle(f) ==
  /\ due # <<>>
  /\ isRunning
  /\ ~TooSoon(now, Head(due))
  /\ ValidFrame(f)
  /\ LET c == CycleBody(f, now)
     IN /\ hits' = c.hits
        /\ passed' = c.passed
        /\ passStartedAt' = c.passStartedAt
        /\ cyc' = [valid |-> TRUE, frame |-> f,
                   templateHit |-> c.templateHit, bestInliers |-> c.bestInliers,
                   bestQuad |-> c.bestQuad, good |-> c.good, fits |-> c.fits,
                   trace |-> c.trace, refs |-> refs, ts |-> now,
                   waferPresent |-> c.waferPresent, decided |-> c.decided]
        /\ pushed' = Append(pushed, c.waferPresent)
        /\ lastBodyTS' = now
        /\ due' = Tail(due)
        /\ IF c.autoExit
           THEN \* this.stopDetection(); return
                /\ isRunning' = FALSE
                /\ stream' = "null"
                /\ status' = StatusText(FALSE, 0, FALSE)
                /\ output' = "0"
                /\ lastQuad' = "null"
                /\ stopCalled' = TRUE
                /\ passEnteredAt' = NoTime
                /\ loops' = loops
           ELSE /\ lastQuad' = c.lastQuad
                /\ output' = c.output
                /\ status' = c.status
                /\ loops' = Append(loops, now)
                /\ UNCHANGED <<isRunning, stream, stopCalled>>
                /\ passEnteredAt' = IF c.passed /\ passEnteredAt = NoTime
                                    THEN c.passStartedAt ELSE passEnteredAt
  /\ UNCHANGED <<refs, CONF_RATIO, MIN_GOOD_MATCHES, MIN_INLIERS, SMOOTH_N,
                 now, pendingMedia, metaPending, pendingLoads,
                 alertOpen, refBuf, frameMats, customLoads, doneLoad,
                 EXIT_ON_PASS, scriptVars>>

\* loop(ts) whose cycle body throws before the smoothing step, where every
\* call that can throw is (drawImage, getImageData, the OpenCV calls): lastTS
\* was set, the catch block logs, and the loop registers itself again.
LoopThrows_EndsLoop ==
  /\ due # <<>>
  /\ isRunning
  /\ ~TooSoon(now, Head(due))
  /\ due' = Tail(due)
  /\ lastBodyTS' = now
  /\ UNCHANGED <<refs, hits, passed, passStartedAt, isRunning, stream, lastQuad,
                 CONF_RATIO, MIN_GOOD_MATCHES, MIN_INLIERS, SMOOTH_N, output, status,
                 now, loops, pendingMedia, metaPending, pendingLoads, cyc, pushed,
                 alertOpen, refBuf, frameMats, customLoads, doneLoad,
                 stopCalled, EXIT_ON_PASS, passEnteredAt, scriptVars>>
LoopThrows ==
  /\ due # <<>>
  /\ isRunning
  /\ ~TooSoon(now, Head(due))
  /\ due' = Tail(due)
  /\ loops' = Append(loops, now)
  /\ lastBodyTS' = now
  /\ UNCHANGED <<refs, hits, passed, passStartedAt, isRunning, stream, lastQuad,
                 CONF_RATIO, MIN_GOOD_MATCHES, MIN_INLIERS, SMOOTH_N, output, status,
                 now, pendingMedia, metaPending, pendingLoads, cyc, pushed,
                 alertOpen, refBuf, frameMats, customLoads, doneLoad,
                 stopCalled, EXIT_ON_PASS, passEnteredAt, scriptVars>>

----------------------------------------------------------------------------
\* Spec: the whole session machinery on a small set of frames.
Next ==
  \/ LoadReferenceImages
  \/ LoadSettled(PresentFiles(MaxRefs))
  \/ StartDetection
  \/ MediaResolved
  \/ MediaRejected
  \/ DismissAlert
  \/ \E ui \in UISession : LoadedMetadata(ui, MaxLoops)
  \/ StopDetection
  \/ \E d \in FrameDeltas : AnimationFrame(d, MaxTicks * TickMs)
  \/ LoopStopped
  \/ LoopSkip
  \/ \E f \in FramesSession(Len(refs)) : LoopCycle(f)

Spec == Init /\ [][Next]_vars

\* SpecCycle: the same operations, one loop and a few cycles, on every frame
\* of FramesCycle and with the settings of UICycle.
NextCycle ==
  \/ LoadReferenceImages
  \/ LoadSettled(PresentFiles(MaxRefsCycle))
  \/ StartDetection
  \/ MediaResolved
  \/ MediaRejected
  \/ DismissAlert
  \/ \E ui \in UICycle : LoadedMetadata(ui, MaxLoopsCycle)
  \/ StopDetection
  \/ \E d \in FrameDeltas : AnimationFrame(d, MaxTicksCycle * TickMs)
  \/ LoopStopped
  \/ LoopSkip
  \/ \E f \in FramesCycle(Len(refs)) : LoopCycle(f)

SpecCycle == Init /\ [][NextCycle]_vars

\* SpecLoad: the two load operations alone, on every batch of good, weak and
\* broken images, overlapping each other.
NextLoad ==
  \/ LoadReferenceImages
  \/ LoadSettledImages(PresentFiles(MaxRefsLoad))
  \/ \E batch \in CustomBatches : LoadCustomReferenceImages(batch, MaxCustomLoads)
  \/ \E k \in 1..MaxCustomLoads : CustomFileSettled(k)

SpecLoad == Init /\ [][NextLoad]_vars

\* SpecHeap: reference reloads of both kinds during the sessions of one loop.
NextHeap ==
  \/ LoadReferenceImages
  \/ LoadSettled(PresentFiles(MaxRefs))
  \/ \E batch \in HeapBatches : LoadCustomReferenceImages(batch, MaxCustomLoadsHeap)
  \/ \E k \in 1..MaxCustomLoadsHeap : CustomFileSettled(k)
  \/ StartDetection
  \/ MediaResolved
  \/ MediaRejected
  \/ DismissAlert
  \/ \E ui \in UIHeap : LoadedMetadata(ui, MaxLoopsHeap)
  \/ StopDetection
  \/ \E d \in FrameDeltas : AnimationFrame(d, MaxTicksHeap * TickMs)
  \/ LoopStopped
  \/ LoopSkip
  \/ \E f \in FramesHeap(Len(refs)) : LoopCycle(f)

SpecHeap == Init /\ [][NextHeap]_vars

\* SpecThrow: sessions of up to two loops whose cycle bodies may throw.
NextThrow ==
  \/ LoadReferenceImages
  \/ LoadSettled(PresentFiles(MaxRefs))
  \/ StartDetection
  \/ MediaResolved
  \/ MediaRejected
  \/ DismissAlert
  \/ \E ui \in UIHeap : LoadedMetadata(ui, MaxLoops)
  \/ StopDetection
  \/ \E d \in FrameDeltas : AnimationFrame(d, MaxTicksThrow * TickMs)
  \/ LoopStopped
  \/ LoopSkip
  \/ \E f \in FramesSession(Len(refs)) : LoopCycle(f)
  \/ LoopThrows

SpecThrow == Init /\ [][NextThrow]_vars

\* SpecExit: sessions with the auto-exit enabled or not, seen at animation
\* frames TickMsExit apart, so that PASS_HOLD_MS elapses within a few frames;
\* no callback comes sooner than 1000/30 ms after the last, so none is skipped.
NextExit ==
  \/ LoadReferenceImages
  \/ LoadSettled(PresentFiles(MaxRefs))
  \/ StartDetection
  \/ MediaResolved
  \/ MediaRejected
  \/ DismissAlert
  \/ \E ui \in UIHeap : LoadedMetadata(ui, MaxLoops)
  \/ StopDetection
  \/ AnimationFrame(TickMsExit, MaxTicksExit * TickMsExit)
  \/ LoopStopped
  \/ \E f \in FramesSession(Len(refs)) : LoopCycle(f)

SpecExit == InitExit /\ [][NextExit]_vars

----------------------------------------------------------------------------
\* onFrame of script.js, as operators.

\* Math.max(1, euclideanDistance(pLeft, pRight))
MouthWidth(w) == IF w < 1 THEN 1 ELSE w

\* openness = mouthGap / mouthWidth, in hundredths
Openness(gap, width) == (100 * gap) \div MouthWidth(width)

\* mouthState === "closed" && openness > OPEN_THR
MouthOpens_NonStrict(state, openness) == state = "closed" /\ openness >= OPEN_THR
MouthOpens(state, openness) == state = "closed" /\ openness > OPEN_THR

\* mouthState === "open" && openness < CLOSE_THR
MouthCloses(state, openness) == state = "open" /\ openness < CLOSE_THR

\* d >= TOUCH_MIN_PX && d <= TOUCH_MAX_PX
InRange(d) == d >= TOUCH_MIN_PX /\ d <= TOUCH_MAX_PX

\* holding = indexInRange && thumbInRange
Holding_IndexOnly(indexDistance, thumbDistance) == InRange(indexDistance)
Holding(indexDistance, thumbDistance) == InRange(indexDistance) /\ InRange(thumbDistance)

\* while (chewEvents.length && chewEvents[0] < cutoff) chewEvents.shift()
RECURSIVE DropOld_Inclusive(_, _)
DropOld_Inclusive(events, cutoff) ==
  IF events # <<>> /\ Head(events) <= cutoff THEN DropOld_Inclusive(Tail(events), cutoff)
  ELSE events
RECURSIVE DropOld(_, _)
DropOld(events, cutoff) ==
  IF events # <<>> /\ Head(events) < cutoff THEN DropOld(Tail(events), cutoff) ELSE events

\* pushChewEvent(ts): the new chewEvents and eatingDetected
PushChewEvent(events, ts) ==
  LET kept == DropOld(Append(events, ts), ts - EAT_WINDOW_MS)
  IN [chewEvents |-> kept, eatingDetected |-> Len(kept) >= CHEW_TARGET]

\* What the gate is about, read off a frame: a face, a hand, and both tips
\* between 10 and 40 px from the lip centre.
TipsInBand(f) ==
  f.faceOk /\ f.handOk /\ f.indexDistance \in 10..40 /\ f.thumbDistance \in 10..40

\* One call of onFrame, d ms after the last: f holds what the two models
\* report for the frame (a face or not, a hand or not) and what the
\* landmarks measure (mouth gap and width, distance of each tip to the lip
\* centre).  performance.now() is read twice in a frame and both reads are
\* taken to be the frame's time.  A frame that would record a chew beyond
\* MaxChews is not looked at.
OnFrame(f, d) ==
  LET t == perfNow + d
      openness == IF f.faceOk THEN Openness(f.gap, f.width) ELSE 0
      opens == f.faceOk /\ MouthOpens(mouthState, openness)
      closes == f.faceOk /\ ~opens /\ MouthCloses(mouthState, openness)
      chews == closes /\ waferTaken
      pushedEv == IF chews THEN PushChewEvent(chewEvents, t)
                  ELSE [chewEvents |-> chewEvents, eatingDetected |-> eatingDetected]
      handBlock == f.handOk /\ f.faceOk
      holding == handBlock /\ Holding(f.indexDistance, f.thumbDistance)
      start1 == IF contactStartTs = NoTime THEN t ELSE contactStartTs
  IN /\ t <= MaxTimeChew
     /\ chews => Len(recorded) < MaxChews
     /\ perfNow' = t
     /\ mouthState' = IF opens THEN "open" ELSE IF closes THEN "closed" ELSE mouthState
     /\ chewEvents' = pushedEv.chewEvents
     /\ eatingDetected' = pushedEv.eatingDetected
     /\ IF handBlock
        THEN IF waferTaken
             THEN UNCHANGED <<waferTaken, contactStartTs, lastHoldMs, holdingPrev>>
             ELSE IF holding
                  THEN /\ holdingPrev' = TRUE
                       /\ contactStartTs' = start1
                       /\ lastHoldMs' = t - start1
                       /\ waferTaken' = (t - start1 >= CONTACT_REQUIRED_MS)
                  ELSE /\ holdingPrev' = FALSE
                       /\ contactStartTs' = NoTime
                       /\ lastHoldMs' = 0
                       /\ UNCHANGED waferTaken
        ELSE /\ contactStartTs' = NoTime
             /\ lastHoldMs' = 0
             /\ holdingPrev' = FALSE
             /\ UNCHANGED waferTaken
     /\ labels' = IF f.faceOk
                  THEN [chews |-> Len(pushedEv.chewEvents), eating |-> pushedEv.eatingDetected]
                  ELSE NoLabels
     /\ fr' = [valid |-> TRUE, faceOk |-> f.faceOk, openness |-> openness,
               tipsInBand |-> TipsInBand(f), chewed |-> chews]
     /\ recorded' = IF chews THEN Append(recorded, t) ELSE recorded
     /\ bandSince' = IF waferTaken THEN bandSince
                     ELSE IF TipsInBand(f) THEN (IF bandSince = NoTime THEN t ELSE bandSince)
                     ELSE NoTime
     /\ openedSince' = IF chews THEN FALSE
                       ELSE openedSince \/ (f.faceOk /\ openness > OPEN_THR)
     /\ UNCHANGED detectorVars

\* SpecChew: the frames script.js processes, on their own.
NextChew == \E f \in FramesChew, d \in ChewDeltas : OnFrame(f, d)

SpecChew == Init /\ [][NextChew]_vars

\* pushChewEvent(ts) called on its own, with a timestamp not before the last.
CallPushChewEvent(ts) ==
  LET r == PushChewEvent(chewEvents, ts)
  IN /\ Len(recorded) < MaxChews
     /\ recorded # <<>> => ts >= recorded[Len(recorded)]
     /\ chewEvents' = r.chewEvents
     /\ eatingDetected' = r.eatingDetected
     /\ recorded' = Append(recorded, ts)
     /\ UNCHANGED <<mouthState, waferTaken, contactStartTs, lastHoldMs, holdingPrev,
                    perfNow, labels, fr, bandSince, openedSince, detectorVars>>

\* SpecPush: calls of pushChewEvent with non-decreasing timestamps.
NextPush == \E ts \in PushTimes : CallPushChewEvent(ts)

SpecPush == Init /\ [][NextPush]_vars

----------------------------------------------------------------------------
\* Helpers of the properties.

Min(a, b) == IF a <= b THEN a ELSE b
MaxOf(S) == CHOOSE x \in S : \A y \in S : y <= x

\* A cycle body was executed in this step (in the same session).
CycleStep == Len(pushed') = Len(pushed) + 1

SessionState ==
  IF ~isRunning THEN "Idle" ELSE IF passed THEN "Passed" ELSE "Detecting"

\* The per-reference inputs and the number of references of the last cycle.
CycPer == cyc.frame.per
CycN == Len(cyc.frame.per)

\* Template thresholds compared by the monotonicity property, in hundredths.
Thresholds == {45, 50, 55, 60, 65}

----------------------------------------------------------------------------
\* C1: with window N >= 1, `decided` of the k-th executed cycle of a session is
\* true iff one of the last min(k+1, N) pushed hit flags is true; with N = 1
\* it is the cycle's own hit flag; with N = 3 a single true followed by falses
\* keeps it true for the next 2 cycles and false from the third.
C1_SmootherFifoOr ==
  (cyc.valid /\ SMOOTH_N >= 1) =>
    LET k1 == Len(pushed)
        m == Min(k1, SMOOTH_N)
    IN /\ cyc.decided <=> (\E j \in (k1 - m + 1)..k1 : pushed[j])
       /\ (SMOOTH_N = 1) => (cyc.decided <=> pushed[k1])
       /\ (SMOOTH_N = 3) =>
            \A j \in 1..k1 :
              (pushed[j] /\ \A i \in 1..k1 : i # j => ~pushed[i])
                => (cyc.decided <=> k1 - j <= 2)

\* N = 3 and the flags true, false, false, false: the third cycle after the
\* true one decides false.
C1_Witness ==
  /\ cyc.valid /\ SMOOTH_N = 3
  /\ pushed = <<TRUE, FALSE, FALSE, FALSE>>
  /\ hits = <<FALSE, FALSE, FALSE>>
  /\ ~cyc.decided

\* C2: once `passed` is true it stays true until stopDetection, and the only
\* transitions of the session state are Idle -> Detecting, Detecting -> Passed
\* and any state -> Idle.
C2_PassLatchSticky ==
  [][ /\ (passed /\ isRunning /\ isRunning') => passed'
      /\ \/ SessionState' = SessionState
         \/ SessionState' = "Idle"
         \/ SessionState = "Idle" /\ SessionState' = "Detecting"
         \/ SessionState = "Detecting" /\ SessionState' = "Passed" ]_vars

\* C3: the session enters Passed in exactly the first executed cycle whose
\* `decided` is true; passStartedAt is set in that cycle, later cycles of the
\* session do not overwrite it, and passed holds exactly when it is non-null.
C3_PassEntry ==
  /\ [](passed <=> passStartedAt # NoTime)
  /\ [][ /\ (CycleStep /\ ~passed) => (passed' <=> cyc'.decided)
         /\ (~passed /\ passed') => (CycleStep /\ passStartedAt' = now')
         /\ (passed /\ passed') => passStartedAt' = passStartedAt ]_vars

\* Passed was entered in the first cycle, and a later cycle of the session,
\* whose `decided` is true as well, left the timestamp alone.
C3_Witness ==
  /\ isRunning /\ passed /\ cyc.valid /\ cyc.decided
  /\ Len(pushed) >= 2 /\ pushed[1]
  /\ passStartedAt # NoTime /\ passStartedAt < now

\* C4: when the template gate clears, the frame is a hit for that cycle and
\* the fallback is not run (no reference is matched, no homography fitted).
C4_GateHitSkipsFallback ==
  (cyc.valid /\ cyc.templateHit) =>
    (cyc.waferPresent /\ cyc.good = <<>> /\ cyc.fits = {})

C6_TemplateGateIff ==
  cyc.valid =>
    (cyc.templateHit <=> \E i \in 1..CycN : CycPer[i].maxVal >= TMPL_THR)

\* One reference, threshold 0.55, maximum 0.60: a gate hit.
C6_Witness ==
  /\ cyc.valid /\ CycN = 1 /\ TMPL_THR = 55
  /\ CycPer[1].maxVal = 60 /\ cyc.templateHit

\* C7: on the frame of every cycle, a gate hit under a threshold t2 is a gate
\* hit under every threshold t1 <= t2.
C7_ThresholdMonotone ==
  cyc.valid =>
    \A t1 \in Thresholds, t2 \in Thresholds :
      (t1 <= t2 /\ TemplateGate(INSTANT_TEMPLATE, cyc.frame, CycN, t2))
        => TemplateGate(INSTANT_TEMPLATE, cyc.frame, CycN, t1)

\* A frame that hits under 0.55 and no longer under 0.60.
C7_Witness ==
  /\ cyc.valid /\ CycN = 2
  /\ TemplateGate(INSTANT_TEMPLATE, cyc.frame, CycN, 55)
  /\ ~TemplateGate(INSTANT_TEMPLATE, cyc.frame, CycN, 60)

C9_RatioTest ==
  /\ cyc.valid =>
       \A i \in 1..Len(cyc.good) :
         LET kept == SelectSeq(CycPer[i].knn,
                       LAMBDA mv : Len(mv) = 2 /\ 100 * mv[1] < CONF_RATIO * mv[2])
         IN cyc.good[i] = [j \in 1..Len(kept) |-> kept[j][1]]
  /\ RatioTest(<<<<85, 100>>>>, 90) = <<85>>
  /\ RatioTest(<<<<85, 100>>>>, 95) = <<85>>
  /\ RatioTest(<<<<85, 100>>>>, 80) = <<>>
  /\ \A r \in {80, 90, 95} :
       RatioTest(<<<<>>, <<40>>, <<40, 100, 120>>>>, r) = <<>>

\* Ratio 0.90 on 2 entries at 0.85, 3 on the boundary 0.90 and 3 with a single
\* neighbour: the 2 are kept.
C9_Witness ==
  /\ cyc.valid /\ CONF_RATIO = 90
  /\ \E i \in 1..Len(cyc.good) : CycPer[i].knn = KnnTwo /\ cyc.good[i] = <<85, 85>>

\* C10: a reference with fewer than MIN_GOOD_MATCHES surviving matches gets no
\* homography fit, adds nothing to bestInliers, and the next reference is
\* evaluated.
C10_TooFewMatchesSkips ==
  cyc.valid =>
    /\ \A i \in 1..Len(cyc.good) :
         Len(cyc.good[i]) < MIN_GOOD_MATCHES =>
           /\ i \notin cyc.fits
           /\ i < CycN => Len(cyc.good) >= i + 1
    /\ cyc.bestInliers =
         MaxOf({0} \cup { CycPer[i].hom.inliers :
                          i \in { j \in cyc.fits : CycPer[j].hom.kind = "ok" } })

\* The first reference is skipped for too few matches, the second is fitted.
C10_Witness ==
  /\ cyc.valid /\ CycN = 2 /\ Len(cyc.good) = 2
  /\ Len(cyc.good[1]) < MIN_GOOD_MATCHES /\ Len(cyc.good[1]) > 0
  /\ cyc.fits = {2} /\ cyc.bestInliers = CycPer[2].hom.inliers
  /\ cyc.bestInliers > 0

----------------------------------------------------------------------------
\* The best inlier count when every reference is evaluated, none ending the
\* loop: the largest count among the references that pass the match minimum
\* and whose fit succeeds.
AllRefsBest(f, n, ratio, minGood) ==
  IF f.desRows < MIN_DESCRIPTORS THEN 0
  ELSE MaxOf({0} \cup
         { f.per[i].hom.inliers :
             i \in { j \in 1..n : /\ Len(RatioTest(f.per[j].knn, ratio)) >= minGood
                                  /\ f.per[j].hom.kind = "ok" } })

\* C11: the hit flag of every cycle, computed by the loop that stops at the
\* first reference with bestInliers >= MIN_INLIERS, equals the hit flag
\* computed from the best inlier count over all references.
C11_EarlyExitSameDecision ==
  cyc.valid =>
    (cyc.waferPresent <=>
       (cyc.templateHit /\
        AllRefsBest(cyc.frame, CycN, CONF_RATIO, MIN_GOOD_MATCHES) >= MIN_INLIERS))

\* The loop stopped at the first of two references with 5 inliers (the bar),
\* the second would have had 6, and the cycle is a hit.
C11_Witness ==
  /\ cyc.valid /\ CycN = 2 /\ Len(cyc.good) = 1 /\ MIN_INLIERS = 5
  /\ cyc.bestInliers = 5 /\ cyc.waferPresent
  /\ AllRefsBest(cyc.frame, CycN, CONF_RATIO, MIN_GOOD_MATCHES) = 6

\* C12 as claimed: whenever lastQuad is non-null after a cycle, bestInliers >=
\* MIN_INLIERS held in that cycle.
C12_QuadNeedsInlierBar ==
  (cyc.valid /\ lastQuad # "null") => cyc.bestInliers >= MIN_INLIERS

\* C12, amended: whenever lastQuad is non-null, it was produced by the last
\* cycle, the session has not passed, and it is the quad of a reference whose
\* fit succeeded in that cycle with at least one inlier (bestInliers >= 1).
C12_QuadNeedsFit ==
  lastQuad # "null" =>
    /\ cyc.valid /\ ~passed /\ cyc.bestInliers >= 1
    /\ lastQuad = cyc.bestQuad
    /\ \E i \in cyc.fits :
         /\ CycPer[i].hom.kind = "ok" /\ CycPer[i].hom.inliers >= 1
         /\ cyc.refs[i] = lastQuad

\* A quad is shown for a best reference of 5 inliers, below the bar of 6.
C12_Witness ==
  /\ cyc.valid /\ lastQuad # "null" /\ MIN_INLIERS = 6
  /\ cyc.bestInliers = 5 /\ cyc.templateHit /\ ~passed

\* C13: a fit that throws or returns an empty matrix leaves bestInliers and
\* bestQuad as they were before that reference, the next reference (if any)
\* is still evaluated, and the cycle pushes its hit flag.
C13_FailedFitIsZeroInliers ==
  cyc.valid =>
    /\ \A i \in cyc.fits :
         CycPer[i].hom.kind \in {"throw", "empty"} =>
           /\ cyc.trace[i] = (IF i = 1 THEN <<0, "null">> ELSE cyc.trace[i - 1])
           /\ i < CycN => Len(cyc.good) >= i + 1
    /\ pushed # <<>> /\ pushed[Len(pushed)] = cyc.waferPresent
    /\ hits # <<>> /\ hits[Len(hits)] = cyc.waferPresent

\* The first reference is fitted with 5 inliers, the fit of the second throws:
\* the 5 inliers and the quad of the first reference stay.
C13_Witness ==
  /\ cyc.valid /\ CycN = 2 /\ cyc.fits = {1, 2} /\ MIN_INLIERS = 6
  /\ CycPer[1].hom = HomOk(5) /\ CycPer[2].hom.kind = "throw"
  /\ cyc.trace = <<(<<5, cyc.refs[1]>>), (<<5, cyc.refs[1]>>)>>
  /\ cyc.bestInliers = 5 /\ pushed # <<>>

\* C14: in both load operations, an image with fewer than 8 descriptors is
\* never pushed to refs, whatever its position in the batch, and every other
\* image of the batch with at least 8 descriptors is pushed.
C14_WeakRefsExcluded ==
  doneLoad.valid =>
    \A i \in 1..Len(doneLoad.imgs) :
      /\ doneLoad.imgs[i].desRows < MIN_DESCRIPTORS => i \notin doneLoad.added
      /\ doneLoad.imgs[i].desRows >= MIN_DESCRIPTORS => i \in doneLoad.added

\* C15: startDetection with an empty reference set only alerts: the camera is
\* not requested, isRunning and the session state stay as they are, and
\* nothing is left pending that could start a loop or run a cycle.
C15_StartWithoutRefs ==
  [][ /\ (Len(refs) = 0 /\ StartDetection) =>
           /\ alertOpen' = AlertNoRefs
           /\ UNCHANGED <<pendingMedia, metaPending, isRunning, stream, loops, due,
                          hits, passed, passStartedAt, pushed, cyc>>
      /\ Len(refs) = 0 => pendingMedia' <= pendingMedia ]_vars

\* startDetection was called without references and alerted; nothing runs.
C15_Witness ==
  /\ alertOpen = AlertNoRefs /\ refs = <<>>
  /\ ~isRunning /\ pendingMedia = 0 /\ ~metaPending /\ loops = <<>>

\* C16: when getUserMedia rejects, startDetection only alerts: isRunning, the
\* stream, hits, passed and the loops stay as they are and no loadedmetadata
\* event is left pending, so no loop starts and no cycle runs for that call.
C16_CameraFailure ==
  [][ MediaRejected =>
        /\ alertOpen' = AlertCamera
        /\ UNCHANGED <<isRunning, stream, metaPending, loops, due, hits, passed,
                       passStartedAt, lastQuad, pushed, cyc>> ]_vars

\* The camera request of the only start failed: the detector is idle.
C16_Witness ==
  /\ alertOpen = AlertCamera /\ refs # <<>>
  /\ ~isRunning /\ stream = "null" /\ pendingMedia = 0 /\ ~metaPending
  /\ loops = <<>> /\ hits = <<>> /\ ~passed

\* C17: two consecutively executed cycle bodies are at least 1000/30 ms of
\* tick timestamp apart, and a tick that arrives sooner changes nothing and
\* only reschedules its loop.
C17_RateLimit ==
  [][ /\ (CycleStep /\ lastBodyTS # NoTime) => 30 * (now' - lastBodyTS) >= 1000
      /\ (due # <<>> /\ isRunning /\ TooSoon(now, Head(due))) =>
           /\ loops' = Append(loops, Head(due))
           /\ UNCHANGED <<hits, passed, passStartedAt, lastQuad, output, status,
                          pushed, cyc, lastBodyTS, isRunning>> ]_vars

\* C18: when stopDetection returns from stopping a session, every frame
\* buffer and the buffers of every reference have been released.
C18_StopReleasesBuffers ==
  [][ (isRunning /\ StopDetection) =>
        /\ frameMats' = "released"
        /\ \A i \in 1..Len(refBuf') : refBuf'[i] >= 1 ]_vars

\* C19: the buffers of a reference are deleted at most once, and a cycle
\* reads only references whose buffers were never deleted: no reference of
\* this.refs has deleted buffers, neither when a cleanup deletes them nor when
\* a cycle body reads them.
C19_NoDoubleFreeNoUseAfterFree ==
  /\ [](Len(refBuf) = Len(refs) /\ \A i \in 1..Len(refBuf) : refBuf[i] <= 1)
  /\ [][ /\ (pendingLoads' > pendingLoads \/ Len(customLoads') > Len(customLoads)) =>
             \A i \in 1..Len(refBuf) : ReleaseAll(refBuf)[i] = 1
         /\ CycleStep =>
             /\ cyc'.refs = refs
             /\ \A i \in 1..Len(refs) : refBuf[i] = 0 ]_vars

\* A cycle of the running session read its references, then a default and a
\* custom load replaced them and are both still in progress.
C19_Witness ==
  /\ isRunning /\ cyc.valid /\ cyc.refs # <<>>
  /\ pendingLoads > 0 /\ customLoads # <<>>
  /\ refs # <<>> /\ refs # cyc.refs

\* C20: while `passed` is true, lastQuad is null.
C20_PassedHidesQuad == passed => lastQuad = "null"

\* The session passed in a cycle that computed a quad, and none is shown.
C20_Witness ==
  /\ isRunning /\ passed /\ cyc.valid /\ cyc.bestQuad # "null"
  /\ lastQuad = "null"

\* C22: whenever isRunning becomes true, the hit history is empty, `passed`
\* is false, passStartedAt is null and lastQuad is null; and a cycle outputs
\* "1" only if a hit flag pushed since the session started is true.
C22_NoStateAcrossSessions ==
  [][ /\ (~isRunning /\ isRunning') =>
           /\ hits' = <<>>
           /\ ~passed'
           /\ passStartedAt' = NoTime
           /\ lastQuad' = "null"
      /\ CycleStep =>
           (output' = "1" => \E j \in 1..Len(pushed') : pushed'[j]) ]_vars

\* A session that executed cycles was stopped, and the next session has just
\* started: the history is empty and nothing is passed.
C22_Witness ==
  /\ isRunning /\ pushed = <<>> /\ hits = <<>> /\ ~passed
  /\ lastBodyTS # NoTime /\ output = "0" /\ status = StatusText(FALSE, 0, FALSE)
  /\ loops = <<0>>

\* C23: with window N >= 1 the history never holds more than N entries, and
\* an executed cycle appends exactly its own hit flag: to the whole history
\* while it holds fewer than N entries, and to the history without its oldest
\* entry, the others in the same order, when it holds N.
C23_HitsBoundedFifo ==
  /\ [](SMOOTH_N >= 1 => Len(hits) <= SMOOTH_N)
  /\ [][ (CycleStep /\ SMOOTH_N >= 1) =>
           LET flag == pushed'[Len(pushed')]
           IN IF Len(hits) < SMOOTH_N
              THEN hits' = Append(hits, flag)
              ELSE hits' = Append(Tail(hits), flag) ]_vars

\* With N = 3 the fourth cycle of a session evicted the first flag, a true
\* one, and kept the second and the third in their order.
C23_Witness ==
  /\ SMOOTH_N = 3 /\ Len(pushed) = 4
  /\ pushed[1] /\ ~pushed[2] /\ pushed[3]
  /\ hits = <<FALSE, TRUE, pushed[4]>>

\* C24: at most one detection loop is alive at a time (registered for the
\* next animation frame or being called back), and no two cycle bodies are
\* executed for the same animation-frame tick, so the history receives at most
\* one entry per tick.
C24_SingleLoop ==
  /\ [](Len(loops) + Len(due) <= 1)
  /\ [][ CycleStep => lastBodyTS # now ]_vars

\* C25: an executed cycle leaves the output "1" iff its debounced value is
\* true or the session is Passed; once "1", the output stays "1" through
\* every step but a stop (so every cycle from the one that enters Passed
\* outputs "1" until the stop); and stopDetection sets the output to "0" and
\* the status to the non-pass text with 0 inliers.
C25_PresenceOutput ==
  [][ /\ (CycleStep /\ isRunning') =>
           (output' = "1" <=> (cyc'.decided \/ passed'))
      /\ (output = "1" /\ output' # "1") => ~isRunning'
      /\ StopDetection =>
           (output' = "0" /\ status' = StatusText(FALSE, 0, FALSE)) ]_vars

\* C26: once stopDetection was called, and until startDetection is called
\* again, the detector is not running and holds no camera stream, and no
\* detection cycle is executed, whatever was pending when it was called.
C26_StopHonoured ==
  /\ [](stopCalled => (~isRunning /\ stream = "null"))
  /\ [][ CycleStep => ~stopCalled ]_vars

\* C27: every executed detection cycle evaluates a non-empty reference set,
\* and no step changes this.refs while a session is starting (its camera
\* request or its loadedmetadata event pending, and not stopped) or running.
C27_RefsKeptDuringSession ==
  [][ /\ CycleStep => refs # <<>>
      /\ (isRunning \/ (~stopCalled /\ (pendingMedia > 0 \/ metaPending))) =>
           refs' = refs ]_vars

\* C28: when a loadCustomReferenceImages call has ended, no file that failed
\* to load (or whose processing threw) was pushed, and every file of the batch
\* with at least 8 descriptors was pushed, also after a failed one.
C28_CustomLoadDropsAndContinues ==
  (doneLoad.valid /\ doneLoad.path = "custom") =>
    \A i \in 1..Len(doneLoad.imgs) :
      LET img == doneLoad.imgs[i]
      IN /\ ~img.decodes => i \notin doneLoad.added
         /\ (img.decodes /\ img.desRows >= MIN_DESCRIPTORS) => i \in doneLoad.added

C29_ThrowKeepsSession ==
  [][ LoopThrows =>
        /\ isRunning'
        /\ loops' = Append(loops, now)
        /\ UNCHANGED <<hits, passed, passStartedAt, pushed, isRunning, stream>> ]_vars

\* The session passed in one cycle, and the body of a later tick threw: the
\* session still runs, passed, with its history, and the loop is registered.
C29_Witness ==
  /\ isRunning /\ passed /\ hits # <<>> /\ cyc.valid
  /\ cyc.ts < lastBodyTS /\ lastBodyTS = now
  /\ passStartedAt = cyc.ts
  /\ loops = <<now>> /\ due = <<>>

\* C21: a cycle stops the session only if EXIT_ON_PASS is enabled and at
\* least PASS_HOLD_MS have elapsed since passStartedAt (so never with
\* EXIT_ON_PASS disabled); and with EXIT_ON_PASS enabled, every cycle executed
\* PASS_HOLD_MS or more after Passed was entered stops the session and does
\* not register its loop again, so that cycles that keep executing after
\* Passed is entered end the session.
C21_AutoStop ==
  [][ /\ (CycleStep /\ isRunning /\ ~isRunning') =>
           /\ EXIT_ON_PASS
           /\ passed' /\ passStartedAt' # NoTime
           /\ now - passStartedAt' >= PASS_HOLD_MS
      /\ (/\ CycleStep /\ EXIT_ON_PASS
          /\ passEnteredAt # NoTime /\ now - passEnteredAt >= PASS_HOLD_MS) =>
           (~isRunning' /\ loops' = loops) ]_vars

----------------------------------------------------------------------------
\* C31: waferTaken turns true only in a frame that ends a run of processed
\* frames, begun at contactStartTs and at least CONTACT_REQUIRED_MS long, in
\* each of which a face and a hand were seen with both tips in the 10..40 px
\* band; while waferTaken is false a frame with a tip outside the band, with
\* no hand or with no face resets the hold timer; waferTaken never goes back
\* to false.
C31_WaferGate ==
  [][ /\ (~waferTaken /\ waferTaken') =>
           /\ fr'.tipsInBand
           /\ bandSince' # NoTime
           /\ contactStartTs' = bandSince'
           /\ perfNow' - contactStartTs' >= CONTACT_REQUIRED_MS
      /\ (~waferTaken /\ ~fr'.tipsInBand) =>
           /\ ~waferTaken'
           /\ contactStartTs' = NoTime
           /\ lastHoldMs' = 0
      /\ waferTaken => waferTaken'
    ]_vars

\* The wafer is taken by a hold of exactly CONTACT_REQUIRED_MS that did not
\* begin at the first frame.
C31_Witness ==
  /\ waferTaken
  /\ fr.tipsInBand
  /\ bandSince > 500
  /\ perfNow - bandSince = CONTACT_REQUIRED_MS
  /\ contactStartTs = bandSince

\* C32: a chew is recorded only by a frame that takes the mouth from open to
\* closed while waferTaken is already true; the mouth turns open only on an
\* openness above OPEN_THR and closed only on an openness below CLOSE_THR; an
\* openness from CLOSE_THR to OPEN_THR changes neither the mouth state nor the
\* recorded chews; and between two recorded chews some frame had an openness
\* above OPEN_THR.
C32_ChewHysteresis ==
  [][ /\ (recorded' # recorded) =>
           /\ recorded' = Append(recorded, perfNow')
           /\ mouthState = "open" /\ mouthState' = "closed"
           /\ waferTaken
           /\ recorded # <<>> => openedSince
      /\ (mouthState = "closed" /\ mouthState' = "open") =>
           (fr'.faceOk /\ fr'.openness > OPEN_THR)
      /\ (mouthState = "open" /\ mouthState' = "closed") =>
           (fr'.faceOk /\ fr'.openness < CLOSE_THR)
      /\ (fr'.valid /\ fr'.openness >= CLOSE_THR /\ fr'.openness <= OPEN_THR) =>
           (mouthState' = mouthState /\ recorded' = recorded /\ chewEvents' = chewEvents)
    ]_vars

\* A second chew has just been recorded, by a frame with the mouth below
\* CLOSE_THR.
C32_Witness ==
  /\ Len(recorded) = 2
  /\ fr.chewed
  /\ fr.openness < CLOSE_THR
  /\ mouthState = "closed"
  /\ recorded[2] = perfNow


\* C33: after a call pushChewEvent(ts), with timestamps that never decrease,
\* chewEvents holds exactly the recorded timestamps t with
\* t >= ts - EAT_WINDOW_MS, in the order of recording, and eatingDetected is
\* true exactly when that list has at least CHEW_TARGET entries.
C33_PushChewWindow ==
  recorded # <<>> =>
    LET ts == recorded[Len(recorded)]
        InWindow(t) == t >= ts - EAT_WINDOW_MS
    IN /\ chewEvents = SelectSeq(recorded, InWindow)
       /\ eatingDetected <=> (Len(chewEvents) >= CHEW_TARGET)

\* Three chews recorded; the last call dropped the first and kept the second,
\* which lies exactly EAT_WINDOW_MS back.
C33_Witness ==
  /\ Len(recorded) = 3
  /\ Len(chewEvents) = 2
  /\ chewEvents[1] = recorded[3] - EAT_WINDOW_MS
  /\ recorded[1] < chewEvents[1]
  /\ eatingDetected


\* C34: whenever the last frame had a face, the chew count it displayed is
\* the number of recorded chews not older than EAT_WINDOW_MS at that frame,
\* and it showed EATING only if at least CHEW_TARGET recorded chews are that
\* recent.
C34_ChewDisplay ==
  (fr.valid /\ fr.faceOk) =>
    LET Recent(t) == t >= perfNow - EAT_WINDOW_MS
        recent == Len(SelectSeq(recorded, Recent))
    IN /\ labels.chews = recent
       /\ labels.eating => recent >= CHEW_TARGET

====
